---- MODULE Spec2Model ----
(***************************************************************************)
(* Model of rust-httpie (src/main.rs): the key/value token parser, the URL *)
(* validator, and one run of the program from the command line to the exit *)
(* status (argument parsing, client construction, the get / post handlers, *)
(* and the rendering of the response).                                     *)
(*                                                                         *)
(* A string is a sequence of characters; a character is a one-symbol       *)
(* string ("LF" stands for the line-feed control character).               *)
(***************************************************************************)
EXTENDS Integers, Sequences, FiniteSets, TLC

\* ------------------------------------------------------------------ bounds
\* longest string handed to parse_kv_pair / parse_url on their own
MaxLen == 5
\* largest number of key/value tokens on one command line
MaxArgs == 2

\* ----------------------------------------------------------------- strings
Alphabet == {"a", "A", "=", ":", "/"}

StringsUpTo(n) == UNION {[1..m -> Alphabet] : m \in 0..n}

\* least index at which pat occurs in s, 0 when it does not (str::find)
Find(s, pat) ==
    LET hits == {i \in 1..(Len(s) - Len(pat) + 1) : SubSeq(s, i, i + Len(pat) - 1) = pat}
    IN  IF hits = {} THEN 0 ELSE CHOOSE i \in hits : \A j \in hits : i <= j

\* str::contains
Contains(s, pat) == Find(s, pat) # 0

\* str::split(pat), collected: every piece between successive occurrences
RECURSIVE Split(_, _)
Split(s, pat) ==
    LET i == Find(s, pat)
    IN  IF i = 0 THEN <<s>>
        ELSE <<SubSeq(s, 1, i - 1)>> \o Split(SubSeq(s, i + Len(pat), Len(s)), pat)

\* char::to_lowercase on the letters the model uses
Lower(c) == IF c = "A" THEN "a" ELSE c

\* str::to_lowercase
to_lowercase(s) == [i \in 1..Len(s) |-> Lower(s[i])]

Err == [ok |-> FALSE]

\* ------------------------------------------------------------ KvPair parse
\* impl FromStr for KvPair: split on "=", or on ":=" when the token contains
\* it; the first piece is the key, the second the value, later pieces are
\* dropped; fewer than two pieces is an error
from_str(s) ==
    LET split == IF Contains(s, <<":", "=">>) THEN Split(s, <<":", "=">>) ELSE Split(s, <<"=">>)
    IN  IF Len(split) < 2 THEN Err
        ELSE [ok |-> TRUE, k |-> split[1], v |-> split[2]]

parse_kv_pair(s) == from_str(s)

\* --------------------------------------------------------------- Url parse
Letters == {"a", "A", "h", "t", "p"}
Digits == {"0", "1", "2", "3", "4", "5", "6", "7", "8", "9"}
SchemeChars == Letters \cup Digits \cup {"+", "-", "."}

\* index of the ':' that ends a leading scheme (a letter, then letters,
\* digits, '+', '-', '.'), 0 when the string has no scheme
SchemeEnd(s) ==
    LET c == Find(s, <<":">>)
    IN  IF c > 1 /\ s[1] \in Letters /\ \A i \in 2..(c - 1) : s[i] \in SchemeChars
        THEN c ELSE 0

\* the string without its leading '/' characters
RECURSIVE SkipSlashes(_)
SkipSlashes(s) == IF s # <<>> /\ Head(s) = "/" THEN SkipSlashes(Tail(s)) ELSE s

\* authority text up to the path
UpToSlash(s) == LET i == Find(s, <<"/">>) IN IF i = 0 THEN s ELSE SubSeq(s, 1, i - 1)

\* host[:port] is accepted: a ':' needs a host before it and only digits after
AuthorityOk(a) ==
    LET c == Find(a, <<":">>)
    IN  c = 0 \/ (c > 1 /\ \A i \in (c + 1)..Len(a) : a[i] \in Digits)

IsSpecial(scheme) == scheme = <<"h", "t", "t", "p">>

\* <Url as FromStr>::from_str, i.e. Url::parse without a base URL: a string
\* with no scheme is a relative reference and is rejected; a special scheme
\* needs a non-empty host; the parsed Url holds the normalised components
UrlParse(s) ==
    LET e      == SchemeEnd(s)
        scheme == to_lowercase(SubSeq(s, 1, e - 1))
        rest   == SubSeq(s, e + 1, Len(s))
    IN  IF e = 0 THEN Err
        ELSE IF IsSpecial(scheme)
        THEN LET after == SkipSlashes(rest)
                 auth  == UpToSlash(after)
                 path  == SubSeq(after, Len(auth) + 1, Len(after))
             IN  IF auth = <<>> \/ Head(auth) = ":" \/ ~AuthorityOk(auth) THEN Err
                 ELSE [ok |-> TRUE, scheme |-> scheme,
                       rest |-> <<"/", "/">> \o to_lowercase(auth)
                                \o (IF path = <<>> THEN <<"/">> ELSE path)]
        ELSE IF Len(rest) >= 2 /\ SubSeq(rest, 1, 2) = <<"/", "/">>
        THEN IF AuthorityOk(UpToSlash(SubSeq(rest, 3, Len(rest))))
             THEN [ok |-> TRUE, scheme |-> scheme, rest |-> rest]
             ELSE Err
        ELSE [ok |-> TRUE, scheme |-> scheme, rest |-> rest]

\* Url's Display / as_str: the serialised, normalised URL
UrlString(u) == u.scheme \o <<":">> \o u.rest

\* mutant: hands back the normalised serialisation of the parsed Url
parse_url_normalised(s) ==
    LET url == UrlParse(s)
    IN  IF url.ok THEN [ok |-> TRUE, val |-> UrlString(url)] ELSE Err

\* fn parse_url: the parsed Url is only a check, the input is returned as is
parse_url(s) ==
    LET url == UrlParse(s)
    IN  IF url.ok THEN [ok |-> TRUE, val |-> s] ELSE Err

\* ------------------------------------------------------------ command line
\* the URLs a run is started with: "aAa" (no scheme), "http://" (no host),
\* "http://a"
Urls == { <<"a", "A", "a">>,
          <<"h", "t", "t", "p", ":", "/", "/">>,
          <<"h", "t", "t", "p", ":", "/", "/", "a">> }

\* reqwest::header::AUTHORIZATION
AUTHORIZATION == <<"a", "u", "t", "h", "o", "r", "i", "z", "a", "t", "i", "o", "n">>

\* reqwest::header::CONTENT_TYPE
CONTENT_TYPE == <<"c", "o", "n", "t", "e", "n", "t", "-", "t", "y", "p", "e">>

\* the key/value tokens a run is started with: "a=1", "a=2",
\* "Authorization=t", "authorization=<LF>", "a"
Tokens == { <<"a", "=", "1">>,
            <<"a", "=", "2">>,
            <<"A">> \o Tail(AUTHORIZATION) \o <<"=", "t">>,
            AUTHORIZATION \o <<"=", "LF">>,
            <<"a">> }

TokenLists(n) == UNION {[1..m -> Tokens] : m \in 0..n}

\* struct Opts as typed on the command line, before any conversion: either a
\* line that asks for the help or version text (-h, --help, -V, --version,
\* help; whatever else it holds is not looked at), or a subcommand with its
\* URL and its two lists of tokens (Get: header, query; Post: header, body)
CommandLines ==
    {[kind |-> "info", url |-> <<>>, header |-> <<>>, extra |-> <<>>]}
    \cup {[kind |-> k, url |-> u, header |-> hx[1], extra |-> hx[2]] :
             k \in {"get", "post"}, u \in Urls,
             hx \in {p \in TokenLists(MaxArgs) \X TokenLists(MaxArgs) :
                       Len(p[1]) + Len(p[2]) <= MaxArgs}}

AllOk(rs) == \A i \in 1..Len(rs) : rs[i].ok

KvPairs(rs) == [i \in 1..Len(rs) |-> [k |-> rs[i].k, v |-> rs[i].v]]

\* mutant: the subcommand is accepted whatever parse_url answered
OptsParseAnyUrl(a) ==
    LET hs == [i \in 1..Len(a.header) |-> parse_kv_pair(a.header[i])]
        xs == [i \in 1..Len(a.extra) |-> parse_kv_pair(a.extra[i])]
    IN  IF a.kind = "info" THEN [ok |-> FALSE, code |-> 0]
        ELSE IF AllOk(hs) /\ AllOk(xs)
        THEN [ok |-> TRUE, subcmd |-> a.kind, url |-> a.url,
              header |-> KvPairs(hs), extra |-> KvPairs(xs)]
        ELSE [ok |-> FALSE, code |-> 2]

\* Opts::parse(): clap prints the help or version text and exits 0 when asked
\* to; otherwise it converts the URL with parse_url and every token with
\* parse_kv_pair and exits 2 when any conversion fails
OptsParse(a) ==
    LET u  == parse_url(a.url)
        hs == [i \in 1..Len(a.header) |-> parse_kv_pair(a.header[i])]
        xs == [i \in 1..Len(a.extra) |-> parse_kv_pair(a.extra[i])]
    IN  IF a.kind = "info" THEN [ok |-> FALSE, code |-> 0]
        ELSE IF u.ok /\ AllOk(hs) /\ AllOk(xs)
        THEN [ok |-> TRUE, subcmd |-> a.kind, url |-> u.val,
              header |-> KvPairs(hs), extra |-> KvPairs(xs)]
        ELSE [ok |-> FALSE, code |-> 2]

\* ----------------------------------------------------------------- request
\* the default headers main gives the client
DefaultHeaders == [x_powered_by |-> "Rust", user_agent |-> "Rust Httpie"]

\* <HeaderValue as FromStr>: a value with a control character is rejected
HeaderValueParse(v) ==
    IF \E i \in 1..Len(v) : v[i] = "LF" THEN Err ELSE [ok |-> TRUE, val |-> v]

\* HeaderMap::insert / HashMap::insert: a later value replaces an earlier one
Insert(map, k, v) == [x \in (DOMAIN map) \cup {k} |-> IF x = k THEN v ELSE map[x]]

EmptyMap == [x \in {} |-> <<>>]

\* the loop of get over args.header: only a header whose lowercased name is
\* "authorization" is inserted; a value that fails to parse ends get
RECURSIVE get_headers(_, _)
get_headers(hs, map) ==
    IF hs = <<>> THEN [ok |-> TRUE, val |-> map]
    ELSE IF to_lowercase(Head(hs).k) = AUTHORIZATION
         THEN LET v == HeaderValueParse(Head(hs).v)
              IN  IF v.ok THEN get_headers(Tail(hs), Insert(map, AUTHORIZATION, v.val))
                  ELSE Err
         ELSE get_headers(Tail(hs), map)

\* mutant: the first value inserted for a key is kept
RECURSIVE post_body_first(_, _)
post_body_first(ps, map) ==
    IF ps = <<>> THEN map
    ELSE IF Head(ps).k \in DOMAIN map THEN post_body_first(Tail(ps), map)
         ELSE post_body_first(Tail(ps), Insert(map, Head(ps).k, Head(ps).v))

\* the loop of post over args.body: body.insert(&pair.k, &pair.v)
RECURSIVE post_body(_, _)
post_body(ps, map) ==
    IF ps = <<>> THEN map
    ELSE post_body(Tail(ps), Insert(map, Head(ps).k, Head(ps).v))

\* RequestBuilder::json on a map of strings: one string-valued property per key
Json(map) == {[name |-> k, type |-> "string", value |-> map[k]] : k \in DOMAIN map}

\* ---------------------------------------------------------------- response
\* Content-Type values a server answers with, as the value's tokens
ContentTypeValues == { <<"application", "/", "json">>,
                       <<"text", "/", "json">>,
                       <<"text", "/", "html", ";", "charset=utf-8">>,
                       <<"text", "/", "plain">>,
                       <<"json">>,
                       <<"text", "/", "0xFF">> }

ResponseHeaders ==
    {<<>>} \cup {<<[name |-> CONTENT_TYPE, value |-> ct]>> : ct \in ContentTypeValues}

\* response bodies, as tokens ("NL" is a line break)
Bodies == { <<"{", "a", "}">>, <<"a", "NL", "a">> }

StatusCodes == {200, 500}

Responses == [version : {"HTTP/1.1"}, status : StatusCodes,
              headers : ResponseHeaders, body : Bodies]

None == [some |-> FALSE]

Some(x) == [some |-> TRUE, val |-> x]

\* HeaderValue::to_str: fails on a byte that is not visible ASCII
ToStr(v) == IF \E i \in 1..Len(v) : v[i] = "0xFF" THEN Err ELSE [ok |-> TRUE, val |-> v]

\* <Mime as FromStr>: type "/" subtype, then optional parameters
MimeParse(v) ==
    IF Len(v) >= 3 /\ v[2] = "/" /\ (Len(v) > 3 => (Len(v) = 5 /\ v[4] = ";"))
    THEN [ok |-> TRUE, val |-> [type |-> v[1], subtype |-> v[3]]]
    ELSE Err

\* the first header of that name, if any (HeaderMap::get)
HeaderGet(hs, name) ==
    LET hits == {i \in 1..Len(hs) : hs[i].name = name}
    IN  IF hits = {} THEN None
        ELSE Some(hs[CHOOSE i \in hits : \A j \in hits : i <= j].value)

\* fn get_content_type: None without a Content-Type header; both unwraps
\* panic (ok = FALSE) on a value that is not a string or not a MIME type
get_content_type(r) ==
    LET h == HeaderGet(r.headers, CONTENT_TYPE)
    IN  IF ~h.some THEN [ok |-> TRUE, val |-> None]
        ELSE LET str == ToStr(h.val)
             IN  IF ~str.ok THEN Err
                 ELSE LET m == MimeParse(str.val)
                      IN  IF m.ok THEN [ok |-> TRUE, val |-> Some(m.val)] ELSE Err

\* --------------------------------------------------------------- rendering
\* str::lines: the pieces between line breaks
RECURSIVE Lines(_)
Lines(s) ==
    LET i == Find(s, <<"NL">>)
    IN  IF s = <<>> THEN <<>>
        ELSE IF i = 0 THEN <<s>>
        ELSE <<SubSeq(s, 1, i - 1)>> \o Lines(SubSeq(s, i + 1, Len(s)))

\* jsonxf's pretty printer: a line break and an indent after an opening
\* brace, a line break before a closing one
RECURSIVE Pretty(_)
Pretty(b) ==
    IF b = <<>> THEN <<>>
    ELSE IF Head(b) = "{" THEN <<"{", "NL", "  ">> \o Pretty(Tail(b))
    ELSE IF Head(b) = "}" THEN <<"NL", "}">> \o Pretty(Tail(b))
    ELSE <<Head(b)>> \o Pretty(Tail(b))

\* jsonxf::pretty_print returns a Result: the formatted text, or an error
pretty_print(b) == {[ok |-> TRUE, val |-> Pretty(b)], Err}

\* fn print_status: "<version> <status>" in blue, then an empty line
print_status(r) ==
    [kind |-> "status", fmt |-> "blue", mime |-> None,
     lines |-> <<<<r.version, ToString(r.status)>>, <<>>>>]

\* fn print_headers: one "<name>: <value>" line per header, then an empty line
print_headers(r) ==
    [kind |-> "headers", fmt |-> "green", mime |-> None,
     lines |-> [i \in 1..Len(r.headers) |-> r.headers[i].name \o <<": ">> \o r.headers[i].value]
               \o << <<>> >>]

\* fn print_syntect: every line of s highlighted with the syntax of ext
print_syntect(s, ext) ==
    [kind |-> "body", fmt |-> ext, mime |-> None, lines |-> Lines(s)]

\* mutant: the json arm highlights the body as received
print_body_no_pretty(m, body, pp) ==
    IF m.some /\ m.val.subtype = "json"
    THEN IF pp.ok THEN [ok |-> TRUE, val |-> print_syntect(body, "json")] ELSE Err
    ELSE IF m.some /\ m.val.subtype = "html"
    THEN [ok |-> TRUE, val |-> print_syntect(body, "html")]
    ELSE [ok |-> TRUE, val |-> [kind |-> "body", fmt |-> "raw", mime |-> m, lines |-> <<body>>]]

\* fn print_body, pp being what jsonxf::pretty_print(body) returned: the json
\* arm unwraps it (a panic, ok = FALSE, on an error) and highlights the
\* result; the html arm highlights the body; any other m prints m and the body
print_body(m, body, pp) ==
    IF m.some /\ m.val.subtype = "json"
    THEN IF pp.ok THEN [ok |-> TRUE, val |-> print_syntect(pp.val, "json")] ELSE Err
    ELSE IF m.some /\ m.val.subtype = "html"
    THEN [ok |-> TRUE, val |-> print_syntect(body, "html")]
    ELSE [ok |-> TRUE, val |-> [kind |-> "body", fmt |-> "raw", mime |-> m, lines |-> <<body>>]]

\* ------------------------------------------------------------------- state
VARIABLES
    pc,        \* where the run is
    argv,      \* the command line
    opts,      \* the parsed Opts
    client,    \* the reqwest Client, once built
    requests,  \* the requests handed to the transport so far
    resp,      \* the Response, once received
    mime,      \* print_resp's mime
    body,      \* print_resp's body
    out,       \* what was written to standard output
    exitCode,  \* the exit status of the process
    input,     \* the string a parser is applied to on its own
    result     \* what that parser returned

vars == <<pc, argv, opts, client, requests, resp, mime, body, out, exitCode, input, result>>

NoArgv == [kind |-> "none", url |-> <<>>, header |-> <<>>, extra |-> <<>>]

Init ==
    /\ pc = "start"
    /\ argv \in CommandLines
    /\ opts = None
    /\ client = None
    /\ requests = <<>>
    /\ resp = None
    /\ mime = None
    /\ body = <<>>
    /\ out = <<>>
    /\ exitCode = -1
    /\ input = <<>>
    /\ result = None

\* the process ends with the given status
Exit(code) ==
    /\ pc' = "exit"
    /\ exitCode' = code

\* main: let opts = Opts::parse()
ParseArgs ==
    /\ pc = "start"
    /\ LET o == OptsParse(argv)
       IN  IF o.ok
           THEN /\ opts' = Some(o)
                /\ pc' = "build_client"
                /\ UNCHANGED exitCode
           ELSE /\ Exit(o.code)
                /\ UNCHANGED opts
    /\ UNCHANGED <<argv, client, requests, resp, mime, body, out, input, result>>

\* main: the default headers and Client::builder()...build()?
BuildClient ==
    /\ pc = "build_client"
    /\ client' = Some(DefaultHeaders)
    /\ pc' = "dispatch"
    /\ UNCHANGED <<argv, opts, requests, resp, mime, body, out, exitCode, input, result>>

\* main: build() returns an error, which main returns
BuildClientFails ==
    /\ pc = "build_client"
    /\ Exit(1)
    /\ UNCHANGED <<argv, opts, client, requests, resp, mime, body, out, input, result>>

\* fn get, up to send().await: the header loop, then one request with the
\* URL, the query pairs of args and the headers the loop built
Get ==
    /\ pc = "dispatch"
    /\ opts.val.subcmd = "get"
    /\ LET headers == get_headers(opts.val.header, EmptyMap)
       IN  IF headers.ok
           THEN /\ requests' = Append(requests,
                        [method |-> "GET", url |-> opts.val.url, query |-> opts.val.extra,
                         default_headers |-> client.val, headers |-> headers.val,
                         json |-> None])
                /\ pc' = "send"
                /\ UNCHANGED exitCode
           ELSE /\ Exit(1)
                /\ UNCHANGED requests
    /\ UNCHANGED <<argv, opts, client, resp, mime, body, out, input, result>>

\* fn post, up to send().await: the body loop, then one request with the
\* URL and the map as its JSON body (args.header is not used)
Post ==
    /\ pc = "dispatch"
    /\ opts.val.subcmd = "post"
    /\ requests' = Append(requests,
            [method |-> "POST", url |-> opts.val.url, query |-> <<>>,
             default_headers |-> client.val,
             headers |-> Insert(EmptyMap, CONTENT_TYPE, <<"application", "/", "json">>),
             json |-> Some(Json(post_body(opts.val.extra, EmptyMap)))])
    /\ pc' = "send"
    /\ UNCHANGED <<argv, opts, client, resp, mime, body, out, exitCode, input, result>>

\* send().await answers with a response, whatever its status code
SendOk ==
    /\ pc = "send"
    /\ \E r \in Responses : resp' = Some(r)
    /\ pc' = "print_status"
    /\ UNCHANGED <<argv, opts, client, requests, mime, body, out, exitCode, input, result>>

\* mutant: a failed send is tried again
SendFailsRetry ==
    /\ pc = "send"
    /\ pc' = "dispatch"
    /\ UNCHANGED <<argv, opts, client, requests, resp, mime, body, out, exitCode, input, result>>

\* send().await? answers with a transport error, which main returns
SendFails ==
    /\ pc = "send"
    /\ Exit(1)
    /\ UNCHANGED <<argv, opts, client, requests, resp, mime, body, out, input, result>>

\* print_resp: print_status(&resp)
PrintStatus ==
    /\ pc = "print_status"
    /\ out' = Append(out, print_status(resp.val))
    /\ pc' = "print_headers"
    /\ UNCHANGED <<argv, opts, client, requests, resp, mime, body, exitCode, input, result>>

\* print_resp: print_headers(&resp)
PrintHeaders ==
    /\ pc = "print_headers"
    /\ out' = Append(out, print_headers(resp.val))
    /\ pc' = "get_content_type"
    /\ UNCHANGED <<argv, opts, client, requests, resp, mime, body, exitCode, input, result>>

\* print_resp: let mime = get_content_type(&resp); a panic exits with 101
GetContentType ==
    /\ pc = "get_content_type"
    /\ LET m == get_content_type(resp.val)
       IN  IF m.ok
           THEN /\ mime' = m.val
                /\ pc' = "text"
                /\ UNCHANGED exitCode
           ELSE /\ Exit(101)
                /\ UNCHANGED mime
    /\ UNCHANGED <<argv, opts, client, requests, resp, body, out, input, result>>

\* print_resp: let body = resp.text().await?
TextOk ==
    /\ pc = "text"
    /\ body' = resp.val.body
    /\ pc' = "print_body"
    /\ UNCHANGED <<argv, opts, client, requests, resp, mime, out, exitCode, input, result>>

\* mutant: a body that cannot be read ends the run as a success
TextFailsQuietly ==
    /\ pc = "text"
    /\ Exit(0)
    /\ UNCHANGED <<argv, opts, client, requests, resp, mime, body, out, input, result>>

\* print_resp: resp.text().await? fails, and main returns the error
TextFails ==
    /\ pc = "text"
    /\ Exit(1)
    /\ UNCHANGED <<argv, opts, client, requests, resp, mime, body, out, input, result>>

\* print_resp: print_body(mime, &body); a panic exits with 101
PrintBody ==
    /\ pc = "print_body"
    /\ \E pp \in pretty_print(body) :
          LET b == print_body(mime, body, pp)
          IN  IF b.ok
              THEN /\ out' = Append(out, b.val)
                   /\ pc' = "return"
                   /\ UNCHANGED exitCode
              ELSE /\ Exit(101)
                   /\ UNCHANGED out
    /\ UNCHANGED <<argv, opts, client, requests, resp, mime, body, input, result>>

\* print_resp, get / post and main return Ok(())
Return ==
    /\ pc = "return"
    /\ Exit(0)
    /\ UNCHANGED <<argv, opts, client, requests, resp, mime, body, out, input, result>>

Next ==
    \/ ParseArgs
    \/ BuildClient
    \/ BuildClientFails
    \/ Get
    \/ Post
    \/ SendOk
    \/ SendFails
    \/ PrintStatus
    \/ PrintHeaders
    \/ GetContentType
    \/ TextOk
    \/ TextFails
    \/ PrintBody
    \/ Return

Spec == Init /\ [][Next]_vars

\* ------------------------------------------------- the parsers on their own
InitParse ==
    /\ pc = "call"
    /\ input \in StringsUpTo(MaxLen)
    /\ result = None
    /\ argv = NoArgv
    /\ opts = None
    /\ client = None
    /\ requests = <<>>
    /\ resp = None
    /\ mime = None
    /\ body = <<>>
    /\ out = <<>>
    /\ exitCode = -1

\* parse_kv_pair(input)
CallParseKvPair ==
    /\ pc = "call"
    /\ result' = parse_kv_pair(input)
    /\ pc' = "kv"
    /\ UNCHANGED <<argv, opts, client, requests, resp, mime, body, out, exitCode, input>>

\* parse_url(input)
CallParseUrl ==
    /\ pc = "call"
    /\ result' = parse_url(input)
    /\ pc' = "url"
    /\ UNCHANGED <<argv, opts, client, requests, resp, mime, body, out, exitCode, input>>

NextParse == CallParseKvPair \/ CallParseUrl

SpecParse == InitParse /\ [][NextParse]_vars

\* ------------------------------------------------------ parser properties
Eq == <<"=">>
Colon == <<":">>
ColonEq == <<":", "=">>

Before(s, i) == SubSeq(s, 1, i - 1)

After(s, i, n) == SubSeq(s, i + n, Len(s))

KvOk(k, v) == [ok |-> TRUE, k |-> k, v |-> v]

\* C1: for every non-empty key k without '=' and ':' and every value v,
\* parse_kv_pair(k + "=" + v) is the pair (k, v): the token is split at its
\* first '=' only and all that follows is the value
C1_SplitAtFirstEquals ==
    pc = "kv" =>
        \A i \in 1..Len(input) :
            (/\ input[i] = "="
             /\ Before(input, i) # <<>>
             /\ ~Contains(Before(input, i), Eq)
             /\ ~Contains(Before(input, i), Colon))
            => result = KvOk(Before(input, i), After(input, i, 1))

\* the delimiter parse_kv_pair is said to choose: ":=" when present, else "="
Chosen(s) == IF Contains(s, ColonEq) THEN ColonEq ELSE Eq

\* C2: parse_kv_pair fails on a token with no '=' (hence no ':=') and on a
\* token with nothing before the chosen delimiter, so every pair it returns
\* has a non-empty key
C2_ErrorOrNonEmptyKey ==
    pc = "kv" =>
        /\ (~Contains(input, Eq) => ~result.ok)
        /\ (Find(input, Chosen(input)) = 1 => ~result.ok)
        /\ (result.ok => result.k # <<>>)

\* C3: for a token k + ":=" + v (the ":=" being the token's first), the
\* pair returned is (k, v), also when v contains '='
C3_ColonEqualsFirst ==
    pc = "kv" =>
        \A i \in 1..(Len(input) - 1) :
            (/\ SubSeq(input, i, i + 1) = ColonEq
             /\ ~Contains(Before(input, i), ColonEq))
            => result = KvOk(Before(input, i), After(input, i, 2))

\* C4: parse_url fails on every string without a scheme, and a successful
\* parse_url returns its input, character for character
C4_UrlReturnedUnchanged ==
    pc = "url" =>
        /\ (SchemeEnd(input) = 0 => ~result.ok)
        /\ (result.ok => result.val = input)

\* parse_url accepted a URL whose normalised form differs from what was typed
C4_Witness ==
    /\ pc = "url"
    /\ result.ok
    /\ UrlString(UrlParse(input)) # input

\* --------------------------------------------------------- run properties
\* the URL or one of the tokens of the command line does not parse
BadArgs ==
    /\ argv.kind \in {"get", "post"}
    /\ \/ ~parse_url(argv.url).ok
       \/ \E i \in 1..Len(argv.header) : ~parse_kv_pair(argv.header[i]).ok
       \/ \E i \in 1..Len(argv.extra) : ~parse_kv_pair(argv.extra[i]).ok

\* C5: when the URL or a token does not parse, the run goes from its start
\* straight to a non-zero exit: no client is built, no request is sent
C5_BadArgsNoRequest ==
    BadArgs =>
        /\ pc \in {"start", "exit"}
        /\ (pc = "exit" => exitCode # 0)
        /\ ~client.some
        /\ requests = <<>>
        /\ ~resp.some

\* a run with a bad URL or token has ended
C5_Witness ==
    /\ BadArgs
    /\ pc = "exit"
    /\ exitCode = 2

Kinds(o) == [i \in 1..Len(o) |-> o[i].kind]

RenderOrder == <<"status", "headers", "body">>

\* C6: at most one request is sent, and only after the arguments were
\* parsed; a response is there only after the request; output is written
\* only after the response, and is the status, then the headers, then the
\* body, each once
C6_FixedOrder ==
    /\ Len(requests) <= 1
    /\ (requests # <<>> => opts.some /\ client.some)
    /\ (resp.some => Len(requests) = 1)
    /\ (out # <<>> => resp.some)
    /\ Len(out) <= 3
    /\ Kinds(out) = SubSeq(RenderOrder, 1, Len(out))

\* a run that rendered a whole response has ended
C6_Witness ==
    /\ pc = "exit"
    /\ Len(requests) = 1
    /\ Kinds(out) = RenderOrder

\* status, headers and body were all written
FullyRendered == Kinds(out) = RenderOrder

\* C7 as claimed: the exit status is zero if and only if a response was
\* fully rendered
C7_ZeroIffRendered ==
    pc = "exit" => (exitCode = 0 <=> FullyRendered)

\* C7: the exit status is zero if and only if a response was fully
\* rendered, whatever its status code, or the command line asked for the
\* help or version text
C7_ZeroIffRenderedOrInfo ==
    pc = "exit" => (exitCode = 0 <=> (FullyRendered \/ argv.kind = "info"))

\* a run that rendered a 500 response has ended with status zero
C7_Witness ==
    /\ pc = "exit"
    /\ exitCode = 0
    /\ FullyRendered
    /\ resp.val.status = 500

Keys(ps) == {ps[i].k : i \in 1..Len(ps)}

IsLast(ps, i) == \A j \in (i + 1)..Len(ps) : ps[j].k # ps[i].k

\* C8: the JSON body of a post request has exactly one property per
\* distinct key of the body pairs, every property is a string, and its
\* value is that of the key's last pair
C8_PostBodyLastWins ==
    \A r \in 1..Len(requests) :
        requests[r].method = "POST" =>
            LET ps    == opts.val.extra
                props == requests[r].json.val
            IN  /\ requests[r].json.some
                /\ \A p \in props : p.type = "string" /\ p.name \in Keys(ps)
                /\ Cardinality(props) = Cardinality(Keys(ps))
                /\ \A i \in 1..Len(ps) :
                       IsLast(ps, i) =>
                           [name |-> ps[i].k, type |-> "string", value |-> ps[i].v] \in props

\* a post request was sent for body pairs that repeat a key with another value
C8_Witness ==
    /\ Len(requests) = 1
    /\ requests[1].method = "POST"
    /\ \E i, j \in 1..Len(opts.val.extra) :
          /\ i < j
          /\ opts.val.extra[i].k = opts.val.extra[j].k
          /\ opts.val.extra[i].v # opts.val.extra[j].v

\* C9: a get request carries a header for every header pair supplied,
\* whatever its name
C9_AllHeadersForwarded ==
    \A r \in 1..Len(requests) :
        requests[r].method = "GET" =>
            \A i \in 1..Len(opts.val.header) :
                to_lowercase(opts.val.header[i].k) \in DOMAIN requests[r].headers

\* the subtype the response declares, "" without a Content-Type header
DeclaredSubtype(r) ==
    LET ct == HeaderGet(r.headers, CONTENT_TYPE)
    IN  IF ct.some THEN ct.val[3] ELSE ""

\* the MIME type the response declares, None without a Content-Type header
DeclaredMime(r) ==
    LET ct == HeaderGet(r.headers, CONTENT_TYPE)
    IN  IF ct.some THEN Some([type |-> ct.val[1], subtype |-> ct.val[3]]) ELSE None

\* C10: the body written is chosen by the declared subtype alone: json is
\* pretty-printed and then highlighted as json, html is highlighted as
\* received, anything else (or no Content-Type) is the MIME descriptor and
\* the body as received
C10_FormatterBySubtype ==
    Len(out) = 3 =>
        LET sub == DeclaredSubtype(resp.val)
            b   == out[3]
        IN  /\ sub = "json" =>
                  b.fmt = "json" /\ b.lines = Lines(Pretty(resp.val.body))
            /\ sub = "html" =>
                  b.fmt = "html" /\ b.lines = Lines(resp.val.body)
            /\ sub \notin {"json", "html"} =>
                  /\ b.fmt = "raw"
                  /\ b.mime = DeclaredMime(resp.val)
                  /\ b.lines = <<resp.val.body>>

\* a json body was written whose pretty-printed lines differ from its own
C10_Witness ==
    /\ Len(out) = 3
    /\ DeclaredSubtype(resp.val) = "json"
    /\ out[3].fmt = "json"
    /\ Lines(Pretty(resp.val.body)) # Lines(resp.val.body)

====
